---------------------------- MODULE Spec2Model ----------------------------
(***************************************************************************)
(* A model of endace.py: the reconciliation of Vectra detections against   *)
(* the 'Endace' marker tag and enrichment note, the generation of the      *)
(* Endace deep link, and the write phase of the script's main block.       *)
(*                                                                         *)
(* Text is modelled as a sequence of atoms (a tokenised string): "a" + "b" *)
(* is the concatenation of the sequences and Python's `x in s` on strings  *)
(* is the contiguous-subsequence test.  The marker "Endace" is one atom,   *)
(* so "EndaceOld" is <<"Endace", "Old">>.                                  *)
(*                                                                         *)
(* A timestamp string "YYYY-MM-DDTHH:MM:SSZ" and the datetime parsed from  *)
(* it are the tuple <<Y, M, D, h, m, s>>; datetimes compare                *)
(* lexicographically and convert to epoch milliseconds by the civil        *)
(* calendar.  Inputs are drawn from January 1970 so that millisecond       *)
(* values stay inside TLC's integers.                                      *)
(*                                                                         *)
(* An Optional value is the empty set (None) or a singleton.               *)
(***************************************************************************)
EXTENDS Integers, Sequences, FiniteSets, TLC

VARIABLES
    detections,     \* platform: detection id -> detection record (JSON)
    notes,          \* platform: detection id -> sequence of note records
    next_note_id,   \* platform: id given to the next created note
    now,            \* platform clock (a timestamp)
    pc,             \* position of the script
    run,            \* number of the current run of the script
    detections_to_enrich,       \* local of __main__ (a dict)
    detections_to_update,       \* local of __main__ (a dict)
    already_tagged_detections,  \* local of get_all_detections_to_update
    idx,            \* position of the current for loop in its dict
    vd,             \* the VectraDetection handed to generate_endace_link
    link,           \* local `link`: the last generated link
    window,         \* locals start_ts / end_ts of generate_endace_link at return
    error,          \* the exception that ended the run and where it was raised
    writes,         \* history: detection id -> the writes of this run, in order
    update_args,    \* history: note_id arguments passed to update_detection_note
    prev            \* history: how the previous run ended

vars == <<detections, notes, next_note_id, now, pc, run, detections_to_enrich,
          detections_to_update, already_tagged_detections, idx, vd, link,
          window, error, writes, update_args, prev>>

-----------------------------------------------------------------------------
(* Bounds of the model *)

MaxDetections == 2
MaxRuns == 2
MaxDestinations == 6

-----------------------------------------------------------------------------
(* Text *)

Endace == <<"Endace">>

\* Python `sub in s` for strings
Contains(sub, s) ==
    \E k \in 1..(Len(s) - Len(sub) + 1) : SubSeq(s, k, k + Len(sub) - 1) = sub

\* Python `x in list`
InList(x, list) == \E k \in 1..Len(list) : list[k] = x

RECURSIVE Join(_, _)
\* Python separator.join(list)
Join(separator, list) ==
    IF Len(list) = 0 THEN <<>>
    ELSE IF Len(list) = 1 THEN list[1]
    ELSE list[1] \o separator \o Join(separator, Tail(list))

\* number of occurrences of atom a in text s
Count(a, s) == Cardinality({k \in 1..Len(s) : s[k] = a})

-----------------------------------------------------------------------------
(* Time *)

\* days from 1970-01-01 to the civil date y-m-d (proleptic Gregorian)
DaysFromCivil(y, m, d) ==
    LET yy  == IF m <= 2 THEN y - 1 ELSE y
        era == yy \div 400
        yoe == yy - era * 400
        mp  == IF m > 2 THEN m - 3 ELSE m + 9
        doy == (153 * mp + 2) \div 5 + d - 1
        doe == yoe * 365 + yoe \div 4 - yoe \div 100 + doy
    IN  era * 146097 + doe - 719468

\* int(dt.replace(tzinfo=timezone.utc).timestamp()*1000)
EpochMs(dt) ==
    (DaysFromCivil(dt[1], dt[2], dt[3]) * 86400
        + dt[4] * 3600 + dt[5] * 60 + dt[6]) * 1000

RECURSIVE LexGreater(_, _)
LexGreater(a, b) ==
    IF Len(a) = 0 THEN FALSE
    ELSE IF a[1] # b[1] THEN a[1] > b[1]
    ELSE LexGreater(Tail(a), Tail(b))

\* datetime.strptime(s, "%Y-%m-%dT%H:%M:%SZ"): the fields of the string
strptime(s) == [k \in 1..6 |-> s[k]]

\* datetime `a > b`
DtGreater(a, b) == LexGreater(a, b)

-----------------------------------------------------------------------------
(* Python dict: insertion-ordered keys and a value for each key *)

EmptyDict == [keys |-> <<>>, vals |-> <<>>]

HasKey(d, k) == k \in DOMAIN d.vals

DictSet(d, k, v) ==
    [keys |-> IF HasKey(d, k) THEN d.keys ELSE Append(d.keys, k),
     vals |-> (k :> v) @@ d.vals]

KeySet(d) == {d.keys[k] : k \in 1..Len(d.keys)}

-----------------------------------------------------------------------------
(* class VectraDetection *)

RECURSIVE get_destinations(_)
\* the set built by _get_destinations; list(destinations) is one of its orderings
get_destinations(grouped_details) ==
    IF Len(grouped_details) = 0 THEN {}
    ELSE LET details  == grouped_details[1]
             dest_ips == IF "dst_ips" \in DOMAIN details THEN details.dst_ips ELSE <<>>
         IN  {dest_ips[k] : k \in 1..Len(dest_ips)}
                \cup get_destinations(Tail(grouped_details))

VectraDetection(detection) ==
    [id              |-> detection.id,
     src             |-> detection.src_ip,
     destinations    |-> get_destinations(detection.grouped_details),
     first_timestamp |-> strptime(detection.first_timestamp),
     last_timestamp  |-> strptime(detection.last_timestamp),
     note_id         |-> {}]

RECURSIVE Orderings(_)
\* the orders list(destinations) can give the elements of the set
Orderings(S) ==
    IF S = {} THEN {<<>>}
    ELSE UNION {{<<x>> \o p : p \in Orderings(S \ {x})} : x \in S}

-----------------------------------------------------------------------------
(* class EndaceClient *)

ENDACE_URL == <<"https://endace.example.com">>

\* lines 195-198: the start of the window, at most one hour before its end
ClampStart(start_ts, end_ts) ==
    IF end_ts - start_ts > 3600000 THEN end_ts - 3600000 ELSE start_ts

\* a plausible slip: the padding applied before the clamp
PadThenClamp(vectra_detection) ==
    LET start_ts == EpochMs(vectra_detection.first_timestamp) - 120000
        end_ts   == EpochMs(vectra_detection.last_timestamp) + 240000
    IN  [start |-> ClampStart(start_ts, end_ts), end |-> end_ts]

\* lines 193-202: start_ts and end_ts as they are formatted into the link
LinkWindow(vectra_detection) ==
    LET start_ts == EpochMs(vectra_detection.first_timestamp)
        end_ts   == EpochMs(vectra_detection.last_timestamp)
    IN  [start |-> ClampStart(start_ts, end_ts) - 120000,
         end   |-> end_ts + 240000]

\* a plausible slip: five destinations already fall back to the source filter
SourceOnlyFromFive(destination_ips) ==
    Len(destination_ips) >= 5 \/ Len(destination_ips) < 1

\* line 204: the condition of the source-only branch
SourceOnly(destination_ips) ==
    Len(destination_ips) > 5 \/ Len(destination_ips) < 1

\* lines 213-215: ip_conversation_string
IpConversationString(source_ip, destination_ips) ==
    LET separator        == <<",", source_ip, "%26">>
        src_dst_ips_pair == Join(separator, [k \in 1..Len(destination_ips) |-> <<destination_ips[k]>>])
    IN  <<source_ip, "%26">> \o src_dst_ips_pair

\* generate_endace_link; destination_ips is vectra_detection.destinations as a list
generate_endace_link(url, vectra_detection, destination_ips) ==
    LET source_ip == vectra_detection.src
        title     == <<"Vectra", ToString(vectra_detection.id)>>
        w         == LinkWindow(vectra_detection)
        head      == url \o <<"/vision2/v1/pivotintovision/?datasources=tag%3Aall", "&title=">>
                         \o title
                         \o <<"&start=", ToString(w.start), "&end=", ToString(w.end)>>
        tools     == <<"&tools=", "trafficOverTime_by_app%2Cconversations_by_ipaddress">>
    IN  IF SourceOnly(destination_ips)
        THEN head \o <<"&ip=", source_ip>> \o tools
        ELSE head \o <<"&ip_conv=">>
                  \o IpConversationString(source_ip, destination_ips) \o tools

-----------------------------------------------------------------------------
(* The Vectra platform behind the API client (vaw.vac) *)

DetectionIds == 1..MaxDetections

\* get_all_detections(state='active'): the results of all pages, in id order
ActiveResults ==
    SelectSeq([k \in DetectionIds |-> detections[k]],
              LAMBDA detection : detection.state = "active")

\* get_all_detections(tags=tag): the platform matches the tag as a substring
TagResults(tag) ==
    SelectSeq([k \in DetectionIds |-> detections[k]],
              LAMBDA detection : \E k \in 1..Len(detection.tags) :
                                      Contains(tag, detection.tags[k]))

\* set_detection_note(detection_id, note): a new note, created now
PlatformCreateNote(detection_id, note) ==
    [notes EXCEPT ![detection_id] =
        Append(@, [id            |-> next_note_id,
                   note          |-> note,
                   date_created  |-> now,
                   date_modified |-> {}])]

\* update_detection_note(detection_id, note_id, note): the note modified now
PlatformUpdateNote(detection_id, note_id, note) ==
    [notes EXCEPT ![detection_id] =
        [k \in 1..Len(@) |->
            IF @[k].id = note_id
            THEN [@[k] EXCEPT !.note = note, !.date_modified = {now}]
            ELSE @[k]]]

\* set_detection_tags(detection_id, tags, append=True)
PlatformAppendTags(detection_id, tags) ==
    [detections EXCEPT ![detection_id].tags = @ \o tags]

-----------------------------------------------------------------------------
(* class VectraAPIWrapper *)

RECURSIVE ComplementLoop(_, _, _, _)
ComplementLoop(dict1, dict2, k, result_dict) ==
    IF k > Len(dict1.keys) THEN result_dict
    ELSE LET key == dict1.keys[k]
         IN  ComplementLoop(dict1, dict2, k + 1,
                 IF ~HasKey(dict2, key)
                 THEN DictSet(result_dict, key, dict1.vals[key])
                 ELSE result_dict)

\* a plausible slip: the filter dropped, every entry of dict1 kept
NoComplement(dict1, dict2) == dict1

\* a plausible slip: `in` for `not in`, the entries of dict1 also in dict2
Intersection(dict1, dict2) ==
    ComplementLoop(dict1, ComplementLoop(dict1, dict2, 1, EmptyDict), 1, EmptyDict)

get_dict_keys_relative_complement(dict1, dict2) ==
    ComplementLoop(dict1, dict2, 1, EmptyDict)

\* a plausible slip: the platform's substring match taken as it comes
SubstringTagMatch(tag, tags) == \E k \in 1..Len(tags) : Contains(tag, tags[k])

\* line 132: `tag in detection['tags']`
ExactTagMatch(tag, tags) == InList(tag, tags)

RECURSIVE TaggedLoop(_, _, _, _)
\* lines 130-133, over the results of all pages
TaggedLoop(results, k, tag, dets) ==
    IF k > Len(results) THEN dets
    ELSE TaggedLoop(results, k + 1, tag,
             IF ExactTagMatch(tag, results[k].tags)
             THEN DictSet(dets, results[k].id, VectraDetection(results[k]))
             ELSE dets)

get_tagged_detections(tag) == TaggedLoop(TagResults(tag), 1, tag, EmptyDict)

RECURSIVE ActiveLoop(_, _, _)
\* lines 143-145, over the results of all pages
ActiveLoop(results, k, dets) ==
    IF k > Len(results) THEN dets
    ELSE ActiveLoop(results, k + 1,
             DictSet(dets, results[k].id, VectraDetection(results[k])))

get_active_detections == ActiveLoop(ActiveResults, 1, EmptyDict)

RECURSIVE FirstEndaceNote(_, _)
FirstEndaceNote(r, k) ==
    IF k > Len(r) THEN {}
    ELSE IF Contains(Endace, r[k].note) THEN {r[k]}
    ELSE FirstEndaceNote(r, k + 1)

\* the note returned, or None
get_endace_note(detection_id) == FirstEndaceNote(notes[detection_id], 1)

get_all_detections_to_enrich ==
    LET active_detections         == get_active_detections
        already_tagged            == get_tagged_detections(Endace)
    IN  get_dict_keys_relative_complement(active_detections, already_tagged)

\* line 169: date_modified if the note has one, else date_created
LastModified(note) ==
    IF note.date_modified # {}
    THEN CHOOSE t \in note.date_modified : TRUE
    ELSE note.date_created

\* line 172: the detection was updated more recently than the note
UpdatedSince(detection, note_last_timestamp) ==
    DtGreater(detection.last_timestamp, note_last_timestamp)

\* a plausible slip: the selected detection stored without its note id
WithoutNoteId(detection, note) == detection

\* line 173: detection.note_id = note['id']
WithNoteId(detection, note) == [detection EXCEPT !.note_id = {note.id}]

RECURSIVE UpdateLoop(_, _, _)
\* the loop of get_all_detections_to_update from its k-th item on.  A note of
\* None makes note.get raise AttributeError, which ends the call.
UpdateLoop(tagged, k, dets) ==
    IF k > Len(tagged.keys)
    THEN [raised |-> "", detections |-> dets, tagged |-> tagged]
    ELSE LET detection_id == tagged.keys[k]
             detection    == tagged.vals[detection_id]
             found        == get_endace_note(detection_id)
         IN  IF found = {}
             THEN [raised |-> "AttributeError", detections |-> dets, tagged |-> tagged]
             ELSE LET note == CHOOSE n \in found : TRUE
                      note_last_timestamp == strptime(LastModified(note))
                  IN  IF UpdatedSince(detection, note_last_timestamp)
                      THEN UpdateLoop(
                               DictSet(tagged, detection_id, WithNoteId(detection, note)),
                               k + 1,
                               DictSet(dets, detection_id, WithNoteId(detection, note)))
                      ELSE UpdateLoop(tagged, k + 1, dets)

\* the outcome of the call: the exception raised ("" if none), the dict it
\* returns and already_tagged_detections as the loop leaves it
get_all_detections_to_update ==
    UpdateLoop(get_tagged_detections(Endace), 1, EmptyDict)

-----------------------------------------------------------------------------
(* Inputs *)

T(d, h, m, s) == <<1970, 1, d, h, m, s>>

AddressPool == <<"10.0.0.2", "10.0.0.3", "10.0.0.4", "10.0.0.5",
                 "10.0.0.6", "10.0.0.7", "10.0.0.8", "10.0.0.9">>

SourceAddress == "10.0.0.1"

AnalystNote == <<"analyst note">>

\* a note as an earlier run of the script wrote it
OldEndaceNote == <<"Endace", " link: [click here](", "https://endace.example.com", ")">>

Note(text, created, modified) ==
    [note |-> text, date_created |-> created, date_modified |-> modified]

\* the platform states a detection is drawn from
Profiles == <<
    \* 1: never enriched
    [state |-> "active", tags |-> <<>>, last |-> T(2,0,5,0), notes |-> <<>>],
    \* 2: never enriched, with an analyst's tag and note
    [state |-> "active", tags |-> << <<"Other">> >>, last |-> T(2,0,5,0),
     notes |-> << Note(AnalystNote, T(2,0,0,0), {}) >>],
    \* 3: tagged 'EndaceOld' only: a substring match of the tag query
    [state |-> "active", tags |-> << <<"Endace", "Old">> >>, last |-> T(2,0,5,0),
     notes |-> <<>>],
    \* 4: tagged 'NotEndace' only, with the note of a run that was cut short
    [state |-> "active", tags |-> << <<"Not", "Endace">> >>, last |-> T(2,1,0,0),
     notes |-> << Note(OldEndaceNote, T(2,0,5,0), {}) >>],
    \* 5: enriched, note never modified and older than the detection
    [state |-> "active", tags |-> << <<"Other">>, Endace >>, last |-> T(2,1,0,0),
     notes |-> << Note(AnalystNote, T(2,0,0,0), {}), Note(OldEndaceNote, T(2,0,5,0), {}) >>],
    \* 6: enriched, note never modified and as old as the detection
    [state |-> "active", tags |-> << Endace >>, last |-> T(2,0,5,0),
     notes |-> << Note(OldEndaceNote, T(2,0,5,0), {}) >>],
    \* 7: enriched, note created before and modified after the detection's last activity
    [state |-> "active", tags |-> << Endace >>, last |-> T(2,0,5,0),
     notes |-> << Note(OldEndaceNote, T(2,0,0,0), {T(2,1,0,0)}) >>],
    \* 8: enriched, note modified before the detection's last activity
    [state |-> "active", tags |-> << Endace, <<"Endace", "Old">> >>, last |-> T(2,1,0,0),
     notes |-> << Note(OldEndaceNote, T(2,0,0,0), {T(2,0,5,0)}) >>],
    \* 9: tagged, but without an enrichment note
    [state |-> "active", tags |-> << Endace >>, last |-> T(2,0,5,0),
     notes |-> << Note(AnalystNote, T(2,0,0,0), {}) >>],
    \* 10: no longer active, enriched, note older than the detection
    [state |-> "fixed", tags |-> << Endace >>, last |-> T(2,0,5,0),
     notes |-> << Note(OldEndaceNote, T(2,0,0,0), {}) >>],
    \* 11: no longer active, never enriched
    [state |-> "fixed", tags |-> <<>>, last |-> T(2,0,5,0), notes |-> <<>>],
    \* 12: enriched twice: a newer note first, an older one second
    [state |-> "active", tags |-> << Endace >>, last |-> T(2,0,5,0),
     notes |-> << Note(OldEndaceNote, T(2,1,0,0), {}), Note(OldEndaceNote, T(2,0,0,0), {}) >>]
>>

DetectionJson(id, state, tags, grouped_details, first, last) ==
    [id |-> id, state |-> state, tags |-> tags, src_ip |-> SourceAddress,
     grouped_details |-> grouped_details,
     first_timestamp |-> first, last_timestamp |-> last]

\* the notes of a profile as the platform holds them for detection id
ProfileNotes(id, profile) ==
    [k \in 1..Len(profile.notes) |->
        [id            |-> 10 * id + k,
         note          |-> profile.notes[k].note,
         date_created  |-> profile.notes[k].date_created,
         date_modified |-> profile.notes[k].date_modified]]

NoError == [exception |-> "", at |-> ""]

NoWrites == [d \in DetectionIds |-> <<>>]

NoPrev == [outcome |-> "none", writes |-> NoWrites, to_enrich |-> {}]

Init ==
    /\ \E c \in [DetectionIds -> 1..Len(Profiles)] :
        /\ detections = [d \in DetectionIds |->
                DetectionJson(d, Profiles[c[d]].state, Profiles[c[d]].tags,
                              << [dst_ips |-> <<AddressPool[1]>>] >>,
                              T(2,0,0,0), Profiles[c[d]].last)]
        /\ notes = [d \in DetectionIds |-> ProfileNotes(d, Profiles[c[d]])]
    /\ next_note_id = 10 * (MaxDetections + 1)
    /\ now = T(2,2,0,0)
    /\ pc = "get_to_enrich"
    /\ run = 1
    /\ detections_to_enrich = EmptyDict
    /\ detections_to_update = EmptyDict
    /\ already_tagged_detections = EmptyDict
    /\ idx = 1
    /\ vd = {}
    /\ link = <<>>
    /\ window = {}
    /\ error = NoError
    /\ writes = NoWrites
    /\ update_args = <<>>
    /\ prev = NoPrev

-----------------------------------------------------------------------------
(* __main__ *)

\* where the script is after the item before position k of the first loop
LoopHead(k, to_enrich, to_update) ==
    IF k <= Len(to_enrich.keys) THEN "set_detection_note"
    ELSE IF Len(to_update.keys) > 0 THEN "update_detection_note"
    ELSE "done"

\* line 258 / 270
NoteText(l) == <<"Endace", " link: [click here](">> \o l \o <<")">>

\* an exception nothing catches: the script ends where it is
Abort(exception) ==
    /\ pc' = "aborted"
    /\ error' = [exception |-> exception, at |-> pc]

\* line 253
GetAllDetectionsToEnrich ==
    /\ pc = "get_to_enrich"
    /\ detections_to_enrich' = get_all_detections_to_enrich
    /\ pc' = "get_to_update"
    /\ UNCHANGED <<detections, notes, next_note_id, now, run, detections_to_update,
                   already_tagged_detections, idx, vd, link, window, error,
                   writes, update_args, prev>>

\* line 254
GetAllDetectionsToUpdate ==
    /\ pc = "get_to_update"
    /\ LET r == get_all_detections_to_update
       IN  IF r.raised # ""
           THEN /\ Abort(r.raised)
                /\ UNCHANGED <<detections_to_update, already_tagged_detections, idx>>
           ELSE /\ detections_to_update' = r.detections
                /\ already_tagged_detections' = r.tagged
                /\ idx' = 1
                /\ pc' = LoopHead(1, detections_to_enrich, r.detections)
                /\ UNCHANGED error
    /\ UNCHANGED <<detections, notes, next_note_id, now, run, detections_to_enrich,
                   vd, link, window, writes, update_args, prev>>

\* a query of the platform fails: the exception ends the run
QueryFails ==
    /\ pc \in {"get_to_enrich", "get_to_update"}
    /\ Abort("HTTPException")
    /\ UNCHANGED <<detections, notes, next_note_id, now, run, detections_to_enrich,
                   detections_to_update, already_tagged_detections, idx, vd, link,
                   window, writes, update_args, prev>>

\* lines 257-261
SetDetectionNote ==
    /\ pc = "set_detection_note"
    /\ LET detection_id == detections_to_enrich.keys[idx]
           detection    == detections_to_enrich.vals[detection_id]
       IN  \E destination_ips \in Orderings(detection.destinations) :
            LET l == generate_endace_link(ENDACE_URL, detection, destination_ips)
            IN  /\ vd' = {detection}
                /\ link' = l
                /\ window' = {LinkWindow(detection)}
                /\ notes' = PlatformCreateNote(detection_id, NoteText(l))
                /\ next_note_id' = next_note_id + 1
                /\ writes' = [writes EXCEPT ![detection_id] = Append(@, "create")]
    /\ pc' = "set_detection_tags"
    /\ UNCHANGED <<detections, now, run, detections_to_enrich, detections_to_update,
                   already_tagged_detections, idx, error, update_args, prev>>

\* a plausible slip: a marker the tag query of the next run does not find
LowercaseMarkerTags == << <<"endace">> >>

\* line 264: tags=['Endace']
MarkerTags == <<Endace>>

\* lines 264-265 and the loop's next item
SetDetectionTags ==
    /\ pc = "set_detection_tags"
    /\ LET detection_id == detections_to_enrich.keys[idx]
       IN  /\ detections' = PlatformAppendTags(detection_id, MarkerTags)
           /\ writes' = [writes EXCEPT ![detection_id] = Append(@, "tag")]
    /\ idx' = IF idx < Len(detections_to_enrich.keys) THEN idx + 1 ELSE 1
    /\ pc' = LoopHead(idx + 1, detections_to_enrich, detections_to_update)
    /\ UNCHANGED <<notes, next_note_id, now, run, detections_to_enrich,
                   detections_to_update, already_tagged_detections, vd, link,
                   window, error, update_args, prev>>

\* lines 268-273 and the loop's next item
UpdateDetectionNote ==
    /\ pc = "update_detection_note"
    /\ LET detection_id == detections_to_update.keys[idx]
           detection    == detections_to_update.vals[detection_id]
       IN  \E destination_ips \in Orderings(detection.destinations) :
            LET l == generate_endace_link(ENDACE_URL, detection, destination_ips)
            IN  /\ vd' = {detection}
                /\ link' = l
                /\ window' = {LinkWindow(detection)}
                /\ update_args' = Append(update_args, detection.note_id)
                /\ notes' = IF detection.note_id = {} THEN notes
                            ELSE PlatformUpdateNote(detection_id,
                                     CHOOSE n \in detection.note_id : TRUE, NoteText(l))
                /\ writes' = [writes EXCEPT ![detection_id] = Append(@, "update")]
    /\ idx' = idx + 1
    /\ pc' = IF idx < Len(detections_to_update.keys) THEN "update_detection_note" ELSE "done"
    /\ UNCHANGED <<detections, next_note_id, now, run, detections_to_enrich,
                   detections_to_update, already_tagged_detections, error, prev>>

\* lines 257-260 when set_detection_note raises: the link of the item was
\* generated, nothing is written and the exception ends the run
SetDetectionNoteFails ==
    /\ pc = "set_detection_note"
    /\ LET detection_id == detections_to_enrich.keys[idx]
           detection    == detections_to_enrich.vals[detection_id]
       IN  \E destination_ips \in Orderings(detection.destinations) :
            /\ vd' = {detection}
            /\ link' = generate_endace_link(ENDACE_URL, detection, destination_ips)
            /\ window' = {LinkWindow(detection)}
    /\ Abort("HTTPException")
    /\ UNCHANGED <<detections, notes, next_note_id, now, run, detections_to_enrich,
                   detections_to_update, already_tagged_detections, idx, writes,
                   update_args, prev>>

\* line 264 when set_detection_tags raises: the note of the item stays, its
\* tag is not set and the exception ends the run
SetDetectionTagsFails ==
    /\ pc = "set_detection_tags"
    /\ Abort("HTTPException")
    /\ UNCHANGED <<detections, notes, next_note_id, now, run, detections_to_enrich,
                   detections_to_update, already_tagged_detections, idx, vd, link,
                   window, writes, update_args, prev>>

\* lines 268-272 when update_detection_note raises: the link of the item was
\* generated and the note id passed, nothing is written and the exception ends
\* the run
UpdateDetectionNoteFails ==
    /\ pc = "update_detection_note"
    /\ LET detection_id == detections_to_update.keys[idx]
           detection    == detections_to_update.vals[detection_id]
       IN  \E destination_ips \in Orderings(detection.destinations) :
            /\ vd' = {detection}
            /\ link' = generate_endace_link(ENDACE_URL, detection, destination_ips)
            /\ window' = {LinkWindow(detection)}
            /\ update_args' = Append(update_args, detection.note_id)
    /\ Abort("HTTPException")
    /\ UNCHANGED <<detections, notes, next_note_id, now, run, detections_to_enrich,
                   detections_to_update, already_tagged_detections, idx, writes,
                   prev>>

\* the script is started again, later
NextRun ==
    /\ pc \in {"done", "aborted"}
    /\ run < MaxRuns
    /\ run' = run + 1
    /\ now' = [now EXCEPT ![3] = @ + 1]
    /\ prev' = [outcome |-> pc, writes |-> writes,
                to_enrich |-> KeySet(detections_to_enrich)]
    /\ pc' = "get_to_enrich"
    /\ detections_to_enrich' = EmptyDict
    /\ detections_to_update' = EmptyDict
    /\ already_tagged_detections' = EmptyDict
    /\ idx' = 1
    /\ vd' = {}
    /\ link' = <<>>
    /\ window' = {}
    /\ error' = NoError
    /\ writes' = NoWrites
    /\ update_args' = <<>>
    /\ UNCHANGED <<detections, notes, next_note_id>>

Next ==
    \/ GetAllDetectionsToEnrich
    \/ GetAllDetectionsToUpdate
    \/ QueryFails
    \/ SetDetectionNote
    \/ SetDetectionTags
    \/ UpdateDetectionNote
    \/ SetDetectionNoteFails
    \/ SetDetectionTagsFails
    \/ UpdateDetectionNoteFails
    \/ NextRun

Spec == Init /\ [][Next]_vars

-----------------------------------------------------------------------------
(* The link of one detection: VectraDetection(detection), then               *)
(* generate_endace_link, over a range of time bounds and grouped details.    *)

Destinations(a, b) == SubSeq(AddressPool, a, b)

\* details whose dst_ips are the first b addresses of the pool
PrefixDetails == {[dst_ips |-> Destinations(1, b)] : b \in 0..MaxDestinations}

\* details that overlap the former, repeat an address or have no dst_ips
OtherDetails ==
    {[count |-> 1], [dst_ips |-> <<AddressPool[1], AddressPool[1]>>]}
        \cup {[dst_ips |-> Destinations(3, b)] : b \in 3..MaxDestinations}

GroupedDetailsInputs ==
    {<<>>} \cup {<<a>> : a \in PrefixDetails \cup OtherDetails}
           \cup {<<a, b>> : a \in PrefixDetails, b \in OtherDetails}

FirstInputs == {T(2,0,0,0), T(2,1,0,0)}

LastInputs == {T(2,0,0,0), T(2,0,5,0), T(2,1,0,0), T(2,1,0,1),
               T(2,2,0,0), T(2,2,0,1), T(3,0,0,0)}

LinkInit ==
    /\ \E first \in FirstInputs, last \in LastInputs, g \in GroupedDetailsInputs :
            detections = << DetectionJson(42, "active", <<>>, g, first, last) >>
    /\ notes = << <<>> >>
    /\ next_note_id = 1
    /\ now = T(3,0,0,0)
    /\ pc = "link_input"
    /\ run = 1
    /\ detections_to_enrich = EmptyDict
    /\ detections_to_update = EmptyDict
    /\ already_tagged_detections = EmptyDict
    /\ idx = 1
    /\ vd = {}
    /\ link = <<>>
    /\ window = {}
    /\ error = NoError
    /\ writes = NoWrites
    /\ update_args = <<>>
    /\ prev = NoPrev

\* VectraDetection(detection), as the queries construct it
LinkConstruct ==
    /\ pc = "link_input"
    /\ vd' = {VectraDetection(detections[1])}
    /\ pc' = "link_built"
    /\ UNCHANGED <<detections, notes, next_note_id, now, run, detections_to_enrich,
                   detections_to_update, already_tagged_detections, idx, link,
                   window, error, writes, update_args, prev>>

\* ec.generate_endace_link(detection)
LinkGenerate ==
    /\ pc = "link_built"
    /\ \E detection \in vd :
        \E destination_ips \in Orderings(detection.destinations) :
            /\ link' = generate_endace_link(ENDACE_URL, detection, destination_ips)
            /\ window' = {LinkWindow(detection)}
    /\ pc' = "link_done"
    /\ UNCHANGED <<detections, notes, next_note_id, now, run, detections_to_enrich,
                   detections_to_update, already_tagged_detections, idx, vd,
                   error, writes, update_args, prev>>

LinkNext ==
    \/ LinkConstruct
    \/ LinkGenerate

SpecLink == LinkInit /\ [][LinkNext]_vars

-----------------------------------------------------------------------------
(* Properties of the reconciliation and of the runs, under Spec *)

\* A: the detections the active-state query returns
ActiveIds == {d \in DetectionIds : detections[d].state = "active"}

\* M: the detections that carry the exact tag 'Endace'
MarkedIds == {d \in DetectionIds : \E k \in 1..Len(detections[d].tags) :
                                        detections[d].tags[k] = <<"Endace">>}

\* the detections the tag query of the platform returns for 'Endace'
ReturnedIds == {TagResults(Endace)[k].id : k \in 1..Len(TagResults(Endace))}

\* the detections with 'Endace' inside one of their tags but not as a tag
SubstringOnlyIds == ReturnedIds \ MarkedIds

\* the positions of the notes of d whose text contains 'Endace'
EndacePositions(d) ==
    {k \in 1..Len(notes[d]) : \E j \in 1..Len(notes[d][k].note) :
                                  notes[d][k].note[j] = "Endace"}

HasAnnotation(d) == EndacePositions(d) # {}

\* the enrichment annotation of d: the first note whose text contains 'Endace'
Annotation(d) ==
    notes[d][CHOOSE k \in EndacePositions(d) : \A j \in EndacePositions(d) : k <= j]

\* seconds since 1970-01-01T00:00:00Z of a timestamp of January 1970
Seconds(t) == (t[3] - 1) * 86400 + t[4] * 3600 + t[5] * 60 + t[6]

\* the effective timestamp of a note: date_modified when present, else date_created
Effective(n) ==
    IF n.date_modified = {} THEN Seconds(n.date_created)
    ELSE Seconds(CHOOSE t \in n.date_modified : TRUE)

\* last_seen of d is strictly greater than the effective timestamp of its annotation
Stale(d) == Seconds(detections[d].last_timestamp) > Effective(Annotation(d))

\* get_all_detections_to_enrich has just returned
EnrichReturned == pc = "get_to_update"

\* the call of get_all_detections_to_update has ended, by a return or by the
\* exception of the lookup, and nothing was written since
UpdateEnded ==
    /\ pc \notin {"get_to_enrich", "get_to_update"}
    /\ error.exception # "HTTPException"
    /\ writes = NoWrites

\* get_all_detections_to_update has returned and nothing was written since
UpdateReturned == UpdateEnded /\ error.exception = ""

\* C1: the key set of to-enrich is exactly A \ M, each id once, and
\* |to_enrich| + |A /\ M| = |A|
C1_PartitionCompleteness ==
    EnrichReturned =>
        /\ KeySet(detections_to_enrich) = ActiveIds \ MarkedIds
        /\ DOMAIN detections_to_enrich.vals = ActiveIds \ MarkedIds
        /\ Len(detections_to_enrich.keys) = Cardinality(KeySet(detections_to_enrich))
        /\ \A d \in KeySet(detections_to_enrich) : detections_to_enrich.vals[d].id = d
        /\ Len(detections_to_enrich.keys) + Cardinality(ActiveIds \cap MarkedIds)
                = Cardinality(ActiveIds)

C1_Witness ==
    /\ EnrichReturned
    /\ ActiveIds \cap MarkedIds # {}
    /\ ActiveIds \ MarkedIds # {}
    /\ Len(detections_to_enrich.keys) = Cardinality(ActiveIds \ MarkedIds)

\* C2: the tagged detections are those the platform returned whose tag list
\* holds the exact string 'Endace'; a detection with 'Endace' only inside a tag
\* is not among them and, when active, is in to-enrich
C2_ExactTagFiltering ==
    /\ UpdateReturned =>
            \A d \in DetectionIds :
                HasKey(already_tagged_detections, d)
                    <=> (d \in ReturnedIds /\ d \in MarkedIds)
    /\ (EnrichReturned \/ UpdateReturned) =>
            \A d \in SubstringOnlyIds \cap ActiveIds : HasKey(detections_to_enrich, d)

C2_Witness ==
    /\ UpdateReturned
    /\ \E d \in SubstringOnlyIds \cap ActiveIds :
            /\ HasKey(detections_to_enrich, d)
            /\ ~HasKey(already_tagged_detections, d)
    /\ \E d \in MarkedIds : HasKey(already_tagged_detections, d)

\* C3: every marked detection that has an enrichment annotation is in to-update
\* if and only if its last_seen is strictly greater than the annotation's
\* effective timestamp
C3_UpdateSelection ==
    UpdateEnded =>
        \A d \in MarkedIds :
            HasAnnotation(d) => (HasKey(detections_to_update, d) <=> Stale(d))

\* C4: a marked detection without an annotation is left out, the call ends
\* without an error and the other marked detections are selected as usual
C4_MissingAnnotationSkipped ==
    (UpdateEnded /\ \E d \in MarkedIds : ~HasAnnotation(d)) =>
        /\ error.exception = ""
        /\ \A d \in MarkedIds :
            /\ ~HasAnnotation(d) => ~HasKey(detections_to_update, d)
            /\ HasAnnotation(d) => (HasKey(detections_to_update, d) <=> Stale(d))

\* the item of the work-lists whose write raised the exception
FailedItem ==
    IF error.at = "update_detection_note"
    THEN detections_to_update.keys[idx]
    ELSE detections_to_enrich.keys[idx]

\* the writes of the run for d are those of its work-list
Processed(d) ==
    /\ HasKey(detections_to_enrich, d) => writes[d] = <<"create", "tag">>
    /\ HasKey(detections_to_update, d) => writes[d] = <<"update">>

\* C5: when a note or tag write for one detection fails, every other detection
\* of both work-lists is still processed
C5_WritesIndependent ==
    (pc = "aborted" /\ error.at \in {"set_detection_note", "set_detection_tags",
                                     "update_detection_note"}) =>
        \A d \in (KeySet(detections_to_enrich) \cup KeySet(detections_to_update))
                    \ {FailedItem} : Processed(d)

\* C8: every entry of to-update carries the id of the detection's enrichment
\* annotation, update_detection_note is never called with a null note id, and
\* the detections not selected keep note_id = None
C8_NoteIdPopulated ==
    /\ \A d \in KeySet(detections_to_update) :
            /\ detections_to_update.vals[d].note_id # {}
            /\ HasAnnotation(d)
            /\ detections_to_update.vals[d].note_id = {Annotation(d).id}
    /\ \A k \in 1..Len(update_args) : update_args[k] # {}
    /\ \A d \in KeySet(already_tagged_detections) \ KeySet(detections_to_update) :
            already_tagged_detections.vals[d].note_id = {}
    /\ \A d \in KeySet(detections_to_enrich) :
            detections_to_enrich.vals[d].note_id = {}

C8_Witness ==
    /\ pc = "done"
    /\ Len(update_args) > 0
    /\ KeySet(already_tagged_detections) \ KeySet(detections_to_update) # {}
    /\ \E d \in KeySet(detections_to_update) :
            /\ Len(notes[d]) > 1
            /\ detections_to_update.vals[d].note_id = {Annotation(d).id}

\* the notes of d that the script wrote as a new enrichment
EndaceLinkNotes(d) ==
    {k \in 1..Len(notes[d]) :
        /\ Len(notes[d][k].note) >= 2
        /\ SubSeq(notes[d][k].note, 1, 2) = <<"Endace", " link: [click here](">>}

\* to-enrich of the current run has been computed
ToEnrichComputed ==
    /\ pc # "get_to_enrich"
    /\ ~(pc = "aborted" /\ error.at = "get_to_enrich")

\* C9: after a run whose write phase completed, to-enrich of the next run is
\* empty; after a run cut short between a detection's note and its tag, the
\* detection is in to-enrich again and its next note is a duplicate
C9_RunToRunIdempotence ==
    ToEnrichComputed =>
        /\ prev.outcome = "done" => detections_to_enrich.keys = <<>>
        /\ \A d \in DetectionIds :
            (prev.outcome = "aborted" /\ prev.writes[d] = <<"create">>) =>
                /\ HasKey(detections_to_enrich, d)
                /\ writes[d] # <<>> => Cardinality(EndaceLinkNotes(d)) >= 2

C9_Witness ==
    /\ pc = "get_to_update"
    /\ prev.outcome = "done"
    /\ \E d \in DetectionIds : prev.writes[d] = <<"create", "tag">>
    /\ \E d \in ActiveIds : Len(detections[d].tags) > 1

\* the number of note writes (creations and updates) d received in this run
NoteWrites(d) ==
    Cardinality({k \in 1..Len(writes[d]) : writes[d][k] \in {"create", "update"}})

\* C10: the work-lists are computed before any write and are disjoint, the note
\* of a to-enrich detection is created before its tag is set, each detection
\* receives at most one note write in a run and a detection the run tagged has
\* its enrichment note
C10_OneNoteWritePerRun ==
    /\ pc \in {"get_to_enrich", "get_to_update"} => writes = NoWrites
    /\ KeySet(detections_to_enrich) \cap KeySet(detections_to_update) = {}
    /\ KeySet(detections_to_update) \subseteq MarkedIds
    /\ \A d \in DetectionIds :
        /\ NoteWrites(d) <= 1
        /\ writes[d] # <<>> =>
                (HasKey(detections_to_enrich, d) \/ HasKey(detections_to_update, d))
        /\ (\E k \in 1..Len(writes[d]) : writes[d][k] = "tag") =>
                /\ writes[d] = <<"create", "tag">>
                /\ EndaceLinkNotes(d) # {}

C10_Witness ==
    /\ pc = "aborted"
    /\ \E d \in DetectionIds : writes[d] = <<"create", "tag">>
    /\ \E d \in DetectionIds : writes[d] = <<"create">>

-----------------------------------------------------------------------------
(* Properties of the link, under SpecLink *)

\* first_seen and last_seen of the detection, in epoch milliseconds
FirstSeenMs == Seconds(detections[1].first_timestamp) * 1000

LastSeenMs == Seconds(detections[1].last_timestamp) * 1000

Max(a, b) == IF a >= b THEN a ELSE b

\* the value of the query parameter `key` of the link: the atoms after it, up
\* to the next parameter
Param(key) ==
    LET at   == CHOOSE k \in 1..Len(link) : link[k] = key
        stop == CHOOSE k \in (at + 1)..(Len(link) + 1) :
                    /\ k = Len(link) + 1 \/ link[k] \in {"&title=", "&start=", "&end=",
                                                        "&ip=", "&ip_conv=", "&tools="}
                    /\ \A j \in (at + 1)..(k - 1) :
                            link[j] \notin {"&title=", "&start=", "&end=",
                                            "&ip=", "&ip_conv=", "&tools="}
    IN  SubSeq(link, at + 1, stop - 1)

LinkReturned == pc = "link_done"

TheWindow == CHOOSE w \in window : TRUE

\* C6: with first_seen <= last_seen, end = e + 240000 and
\* start = max(s, e - 3600000) - 120000, so end - start <= 3960000
C6_WindowClampAndPad ==
    (LinkReturned /\ FirstSeenMs <= LastSeenMs) =>
        /\ TheWindow.end = LastSeenMs + 240000
        /\ TheWindow.start = Max(FirstSeenMs, LastSeenMs - 3600000) - 120000
        /\ (LastSeenMs - FirstSeenMs <= 3600000) =>
                TheWindow.start = FirstSeenMs - 120000
        /\ TheWindow.end - TheWindow.start <= 3960000
        /\ Param("&end=") = <<ToString(LastSeenMs + 240000)>>
        /\ Param("&start=") =
                <<ToString(Max(FirstSeenMs, LastSeenMs - 3600000) - 120000)>>

C6_Witness ==
    /\ LinkReturned
    /\ LastSeenMs - FirstSeenMs > 3600000
    /\ TheWindow.end - TheWindow.start = 3960000
    /\ Param("&start=") = <<ToString(LastSeenMs - 3720000)>>

\* the distinct destination addresses of the detection
DistinctDestinations ==
    {a \in {AddressPool[k] : k \in 1..Len(AddressPool)} :
        \E i \in 1..Len(detections[1].grouped_details) :
            /\ "dst_ips" \in DOMAIN detections[1].grouped_details[i]
            /\ \E j \in 1..Len(detections[1].grouped_details[i].dst_ips) :
                    detections[1].grouped_details[i].dst_ips[j] = a}

\* the pairs '<source>%26<destination>' of a comma-separated ip_conv value
RECURSIVE Pairs(_)
Pairs(value) ==
    IF Len(value) < 3 THEN <<>>
    ELSE <<SubSeq(value, 1, 3)>>
            \o (IF Len(value) > 3 /\ value[4] = "," THEN Pairs(SubSeq(value, 5, Len(value)))
                ELSE <<>>)

\* C7: the link carries exactly one of ip and ip_conv: ip=<source> for 0 or
\* more than 5 distinct destinations, else an ip_conv of one
\* '<source>%26<destination>' pair per destination
C7_CardinalityBranch ==
    LinkReturned =>
        LET n == Cardinality(DistinctDestinations)
        IN  /\ Count("&ip=", link) + Count("&ip_conv=", link) = 1
            /\ (n = 0 \/ n > 5) =>
                    /\ Count("&ip_conv=", link) = 0
                    /\ Param("&ip=") = <<detections[1].src_ip>>
            /\ (1 <= n /\ n <= 5) =>
                    /\ Count("&ip=", link) = 0
                    /\ Len(Param("&ip_conv=")) = 4 * n - 1
                    /\ Count(",", Param("&ip_conv=")) = n - 1
                    /\ Len(Pairs(Param("&ip_conv="))) = n
                    /\ \A a \in DistinctDestinations :
                        Cardinality({k \in 1..n :
                            Pairs(Param("&ip_conv="))[k]
                                = <<detections[1].src_ip, "%26", a>>}) = 1

C7_Witness ==
    /\ LinkReturned
    /\ Cardinality(DistinctDestinations) = 5
    /\ Len(detections[1].grouped_details) = 2
    /\ Len(Pairs(Param("&ip_conv="))) = 5

=============================================================================
